---- MODULE Spec2Model ----
(***************************************************************************)
(* A model of target_parquet/helpers.py: the record flattener (flatten),   *)
(* the schema flattener (flatten_schema), the type resolver                *)
(* (_field_type_to_pyarrow_field) and the column schema builder            *)
(* (flatten_schema_to_pyarrow_schema).                                     *)
(*                                                                         *)
(* Python values are tagged records [kind, val]:                           *)
(*   int  : val an integer          str  : val a TLA+ string               *)
(*   none : the value None          list : val a sequence of values        *)
(*   dict : val a sequence of entries [key, value] with distinct keys, in  *)
(*          insertion order (the order a Python dict iterates in).         *)
(***************************************************************************)
EXTENDS Integers, Sequences, FiniteSets, TLC

VARIABLES
  dictionary,      \* flatten's record
  schema,          \* flatten_schema's schema tree
  sep,             \* the separator of both flatteners
  flat,            \* flatten(dictionary)
  flat2,           \* flatten(flat)
  flat_schema,     \* flatten_schema(schema)
  warnings,        \* the LOGGER.warning calls made, in order
  field_name,      \* _field_type_to_pyarrow_field's field name
  input_types,     \* _field_type_to_pyarrow_field's declared types
  input_type,      \* the type token line 113 selected
  fields_ordered,  \* flatten_schema_to_pyarrow_schema's column order
  result           \* what the resolver or the builder returned or raised

vars == <<dictionary, schema, sep, flat, flat2, flat_schema, warnings,
          field_name, input_types, input_type, fields_ordered, result>>

----------------------------------------------------------------------------
(* Python values *)

None == [kind |-> "none", val |-> ""]
\* A variable no step has written yet.
NotRun == [kind |-> "unset", val |-> ""]
PyInt(n) == [kind |-> "int", val |-> n]
PyStr(s) == [kind |-> "str", val |-> s]
PyList(s) == [kind |-> "list", val |-> s]
PyDict(entries) == [kind |-> "dict", val |-> entries]
Entry(k, v) == [key |-> k, value |-> v]

\* isinstance(v, MutableMapping)
IsMapping(v) == v.kind = "dict"

\* Python truthiness of the values the functions test with `if x` / `x or y`.
Truthy(v) ==
  CASE v.kind = "none" -> FALSE
    [] v.kind = "int" -> v.val # 0
    [] v.kind = "str" -> v.val # ""
    [] OTHER -> Len(v.val) > 0

\* The keys of a dict, in iteration order, and as a set.
KeySeq(d) == [i \in 1..Len(d.val) |-> d.val[i].key]
KeySet(d) == {d.val[i].key : i \in 1..Len(d.val)}
HasKey(d, k) == k \in KeySet(d)
\* d[k] for a key that is present.
Get(d, k) == (CHOOSE e \in {d.val[i] : i \in 1..Len(d.val)} : e.key = k).value

\* d[k] = v on a Python dict: an existing key keeps its position and takes
\* the new value, a new key is appended.
DictSet(entries, k, v) ==
  IF \E i \in 1..Len(entries) : entries[i].key = k
  THEN [i \in 1..Len(entries) |->
          IF entries[i].key = k THEN Entry(k, v) ELSE entries[i]]
  ELSE Append(entries, Entry(k, v))

\* dict(items) / d.update(items): the items are set one after the other.
RECURSIVE DictUpdate(_, _)
DictUpdate(entries, items) ==
  IF items = <<>> THEN entries
  ELSE DictUpdate(DictSet(entries, Head(items).key, Head(items).value), Tail(items))

----------------------------------------------------------------------------
(* str() of a list, line 53: Python's list rendering, "[" + ", ".join(repr(x)) + "]" *)

Digit(n) == CASE n = 0 -> "0" [] n = 1 -> "1" [] n = 2 -> "2" [] n = 3 -> "3"
              [] n = 4 -> "4" [] n = 5 -> "5" [] n = 6 -> "6" [] n = 7 -> "7"
              [] n = 8 -> "8" [] n = 9 -> "9"

RECURSIVE IntRepr(_)
IntRepr(n) ==
  IF n < 0 THEN "-" \o IntRepr(0 - n)
  ELSE IF n < 10 THEN Digit(n)
  ELSE IntRepr(n \div 10) \o Digit(n % 10)

\* repr() of the values the model builds; the strings hold no quote, no
\* backslash and no control character, so repr(str) is the text in single quotes.
RECURSIVE PyRepr(_)
RECURSIVE JoinReprs(_)
RECURSIVE JoinItemReprs(_)
JoinReprs(s) ==
  IF s = <<>> THEN ""
  ELSE IF Len(s) = 1 THEN PyRepr(s[1])
  ELSE PyRepr(Head(s)) \o ", " \o JoinReprs(Tail(s))
JoinItemReprs(s) ==
  IF s = <<>> THEN ""
  ELSE IF Len(s) = 1 THEN PyRepr(PyStr(s[1].key)) \o ": " \o PyRepr(s[1].value)
  ELSE PyRepr(PyStr(Head(s).key)) \o ": " \o PyRepr(Head(s).value)
         \o ", " \o JoinItemReprs(Tail(s))
PyRepr(v) ==
  CASE v.kind = "none" -> "None"
    [] v.kind = "int" -> IntRepr(v.val)
    [] v.kind = "str" -> "'" \o v.val \o "'"
    [] v.kind = "list" -> "[" \o JoinReprs(v.val) \o "]"
    [] v.kind = "dict" -> "{" \o JoinItemReprs(v.val) \o "}"

\* The slip of storing a list as it is: v in place of str(v).
LeafValue_unchanged(v) == v

\* str(v) if type(v) is list else v
LeafValue(v) == IF v.kind = "list" THEN PyStr(PyRepr(v)) ELSE v

----------------------------------------------------------------------------
(* flatten, lines 25-54 *)

DEFAULT_SEP == "__"

\* The slip of prefixing at the top level too: parent_key + sep + k always.
new_key_always(parent_key, s, k) == parent_key \o s \o k

\* new_key = parent_key + sep + k if parent_key else k
new_key(parent_key, s, k) == IF parent_key # "" THEN parent_key \o s \o k ELSE k

RECURSIVE flatten(_, _, _)
RECURSIVE flatten_items(_, _, _)

\* The for loop of lines 48-53 over the entries of one mapping: the list `items`.
flatten_items(entries, parent_key, s) ==
  IF entries = <<>> THEN <<>>
  ELSE LET k == Head(entries).key
           v == Head(entries).value
           nk == new_key(parent_key, s, k)
           here == IF IsMapping(v)
                   THEN flatten(v, nk, s).val
                   ELSE <<Entry(nk, LeafValue(v))>>
       IN here \o flatten_items(Tail(entries), parent_key, s)

flatten(d, parent_key, s) ==
  IF Truthy(d)
  THEN PyDict(DictUpdate(<<>>, flatten_items(d.val, parent_key, s)))
  ELSE PyDict(<<>>)

----------------------------------------------------------------------------
(* flatten_schema, lines 57-103 *)

\* The character of a string at a position.
CharAt(text, i) == SubSeq(text, i, i)

\* sub in text: Python's `in` on two strings
Contains(text, sub) ==
  \E i \in 1..(Len(text) - Len(sub) + 1) :
    \A j \in 1..Len(sub) : CharAt(text, i + j - 1) = CharAt(sub, j)

\* x in container, for the string x: an element of a list, a part of a string
PyIn(x, container) ==
  IF container.kind = "str" THEN Contains(container.val, x)
  ELSE \E i \in 1..Len(container.val) : container.val[i] = PyStr(x)

\* value.get(k, default)
GetOr(value, k, default) == IF HasKey(value, k) THEN Get(value, k) ELSE default

\* "object" in value.get("type", [])
is_object(value) == PyIn("object", GetOr(value, "type", PyList(<<>>)))

RECURSIVE flatten_schema(_, _, _)
RECURSIVE flatten_schema_loop(_, _, _, _, _)

\* The for loop of lines 95-102 from `entries` on, with the dict `items` and
\* the warnings logged so far.
flatten_schema_loop(entries, parent_key, s, items, log) ==
  IF entries = <<>> THEN [items |-> items, log |-> log]
  ELSE LET key == Head(entries).key
           value == Head(entries).value
           nk == new_key(parent_key, s, key)
           logged == IF ~HasKey(value, "type")
                     THEN Append(log, [field |-> key, declaration |-> value])
                     ELSE log
       IN IF is_object(value)
          THEN LET sub == flatten_schema(GetOr(value, "properties", None), nk, s)
               IN flatten_schema_loop(Tail(entries), parent_key, s,
                                      DictUpdate(items, sub.items),
                                      logged \o sub.log)
          ELSE flatten_schema_loop(Tail(entries), parent_key, s,
                                   DictSet(items, nk, GetOr(value, "type", None)),
                                   logged)

\* The dict returned, as its entries, and the warnings logged on the way.
flatten_schema(d, parent_key, s) ==
  IF Truthy(d) THEN flatten_schema_loop(d.val, parent_key, s, <<>>, <<>>)
  ELSE [items |-> <<>>, log |-> <<>>]

----------------------------------------------------------------------------
(* _field_type_to_pyarrow_field, lines 106-119, and its table, lines 15-22 *)

TableKeys == {"BOOLEAN", "STRING", "ARRAY", "", "INTEGER", "NUMBER"}

FIELD_TYPE_TO_PYARROW ==
  [t \in TableKeys |->
     CASE t = "BOOLEAN" -> "bool"
       [] t = "STRING" -> "string"
       [] t = "ARRAY" -> "string"
       [] t = "" -> "string"
       [] t = "INTEGER" -> "int64"
       [] t = "NUMBER" -> "float64"]

\* str.upper() on the ASCII letters; every other character stays.
UpperOfLetter ==
  "a" :> "A" @@ "b" :> "B" @@ "c" :> "C" @@ "d" :> "D" @@ "e" :> "E" @@ "f" :> "F"
  @@ "g" :> "G" @@ "h" :> "H" @@ "i" :> "I" @@ "j" :> "J" @@ "k" :> "K" @@ "l" :> "L"
  @@ "m" :> "M" @@ "n" :> "N" @@ "o" :> "O" @@ "p" :> "P" @@ "q" :> "Q" @@ "r" :> "R"
  @@ "s" :> "S" @@ "t" :> "T" @@ "u" :> "U" @@ "v" :> "V" @@ "w" :> "W" @@ "x" :> "X"
  @@ "y" :> "Y" @@ "z" :> "Z"

\* str.upper(), one character
UpperChar(c) == IF c \in DOMAIN UpperOfLetter THEN UpperOfLetter[c] ELSE c

\* item.upper()
RECURSIVE Upper(_)
Upper(text) ==
  IF text = "" THEN ""
  ELSE UpperChar(SubSeq(text, 1, 1)) \o Upper(SubSeq(text, 2, Len(text)))

\* Lines 107-109: input_types or [], a single token made a list of one.
normalize_types(types) ==
  IF ~Truthy(types) THEN PyList(<<>>)
  ELSE IF types.kind = "str" THEN PyList(<<types>>)
  ELSE types

\* The slip of comparing the tokens as written: no upper().
types_as_written(types) ==
  LET tokens == normalize_types(types).val
  IN {tokens[i].val : i \in 1..Len(tokens)}

\* Line 110: {item.upper() for item in input_types}
types_uppercase(types) ==
  LET tokens == normalize_types(types).val
  IN {Upper(tokens[i].val) : i \in 1..Len(tokens)}

\* Line 113: list(types_uppercase)[0] is whichever token the set iterates
\* first, "" when none is left.
selectable(types) ==
  LET rest == types_uppercase(types) \ {"NULL"}
  IN IF rest = {} THEN {""} ELSE rest

Field(name, type, nullable) ==
  [kind |-> "field", name |-> name, type |-> type, nullable |-> nullable]

\* Line 117: the error and its message
NotImplementedError(name, types) ==
  [kind |-> "NotImplementedError",
   message |-> "Data types \"" \o PyRepr(normalize_types(types))
                 \o "\" for field " \o name \o " is not yet supported."]

\* The slip of defaulting an unknown token to string: .get(input_type, pa.string()).
field_type_to_pyarrow_field_default(name, types, selected) ==
  LET nullable == "NULL" \in types_uppercase(types)
  IN Field(name,
           IF selected \in DOMAIN FIELD_TYPE_TO_PYARROW
           THEN FIELD_TYPE_TO_PYARROW[selected] ELSE "string",
           nullable)

\* Lines 111-119 once line 113 has selected the token `selected`.
field_type_to_pyarrow_field(name, types, selected) ==
  LET nullable == "NULL" \in types_uppercase(types)
  IN IF selected \in DOMAIN FIELD_TYPE_TO_PYARROW
     THEN Field(name, FIELD_TYPE_TO_PYARROW[selected], nullable)
     ELSE NotImplementedError(name, types)

\* Everything a call can return or raise.
ResolveOutcomes(name, types) ==
  {field_type_to_pyarrow_field(name, types, t) : t \in selectable(types)}

----------------------------------------------------------------------------
(* flatten_schema_to_pyarrow_schema, lines 122-143 *)

KeyError(name) == [kind |-> "KeyError", key |-> name]
Schema(fields) == [kind |-> "schema", fields |-> fields]

RECURSIVE schema_fields(_, _, _)

\* The slip of skipping what cannot be built: the columns built before a
\* missing or unsupported name are returned as the schema.
schema_fields_partial(d, names, fields) ==
  IF names = <<>> THEN {Schema(fields)}
  ELSE IF ~HasKey(d, Head(names)) THEN {Schema(fields)}
  ELSE UNION { IF f.kind = "field"
               THEN schema_fields(d, Tail(names), Append(fields, f))
               ELSE {Schema(fields)} :
               f \in ResolveOutcomes(Head(names), Get(d, Head(names))) }

\* The list comprehension of lines 141-142 from `names` on, with the fields
\* built so far: the first name that is missing or unsupported raises.
schema_fields(d, names, fields) ==
  IF names = <<>> THEN {Schema(fields)}
  ELSE IF ~HasKey(d, Head(names)) THEN {KeyError(Head(names))}
  ELSE UNION { IF f.kind = "field"
               THEN schema_fields(d, Tail(names), Append(fields, f))
               ELSE {f} :
               f \in ResolveOutcomes(Head(names), Get(d, Head(names))) }

\* The slip of building the columns in the order of the mapping.
flatten_schema_to_pyarrow_schema_own_order(flatten_schema_dictionary, names) ==
  LET d == IF Truthy(flatten_schema_dictionary)
           THEN flatten_schema_dictionary ELSE PyDict(<<>>)
  IN schema_fields(d, KeySeq(d), <<>>)

\* Everything a call can return or raise.
flatten_schema_to_pyarrow_schema(flatten_schema_dictionary, names) ==
  LET d == IF Truthy(flatten_schema_dictionary)
           THEN flatten_schema_dictionary ELSE PyDict(<<>>)
  IN schema_fields(d, names, <<>>)

----------------------------------------------------------------------------
(* Inputs: the mappings of at most MaxEntries entries overall *)

MaxEntries == 3

Keys == {"", "a", "b", "a__b"}
Seps == {DEFAULT_SEP, "_"}
Terminals ==
  { PyInt(5), PyStr("v"),
    PyList(<<PyStr("10"), PyStr("11")>>),
    PyList(<<PyDict(<<Entry("a", PyInt(1))>>)>>) }

\* A nested mapping of a record is the mapping itself; a nested mapping of a
\* schema is the properties of a declaration whose type is w.
Plain == [kind |-> "plain", val |-> ""]
Wrap(w, entries) ==
  IF w.kind = "plain" THEN PyDict(entries)
  ELSE PyDict(<<Entry("type", w), Entry("properties", PyDict(entries))>>)

\* Mappings by size, in parts: the sets of DictTable(n, ..)[m + 1] hold
\* between them every mapping (as its entry sequence) of exactly m entries
\* overall, for m in 0..n, with distinct keys in each mapping and leaves or
\* wrapped mappings as values.
ValueParts(table, m, leaves, wraps) ==
  IF m = 0 THEN { leaves \cup {Wrap(w, <<>>) : w \in wraps} }
  ELSE { {Wrap(w, d) : d \in part} : w \in wraps, part \in table[m + 1] }

\* A mapping of n entries is a first entry, holding a value of first - 1
\* entries, before a mapping of n - first entries without the first key.
WithFirst(k, values, rests) ==
  { <<Entry(k, v)>> \o rest :
      v \in values,
      rest \in { r \in rests : \A i \in 1..Len(r) : r[i].key # k } }

PartsOfSize(table, n, leaves, wraps) ==
  UNION { { WithFirst(k, values, rests) :
              k \in Keys,
              values \in ValueParts(table, first - 1, leaves, wraps),
              rests \in table[n - first + 1] } :
          first \in 1..n }

RECURSIVE DictTable(_, _, _)
DictTable(n, leaves, wraps) ==
  IF n = 0 THEN << { {<<>>} } >>
  ELSE LET table == DictTable(n - 1, leaves, wraps)
       IN Append(table, PartsOfSize(table, n, leaves, wraps))

\* d is None or a mapping of at most size entries overall.
IsInput(d, size, leaves, wraps) ==
  \/ d = None
  \/ d = PyDict(<<>>)
  \/ LET table == DictTable(size - 1, leaves, wraps)
     IN \E n \in 1..size, k \in Keys :
          \E first \in 1..n :
            \E values \in ValueParts(table, first - 1, leaves, wraps),
               rests \in table[n - first + 1] :
              \E entries \in WithFirst(k, values, rests) : d = PyDict(entries)

----------------------------------------------------------------------------
(* The record flattener as a state machine: flatten the record, then flatten
   the flat row again. *)

InitFlatten ==
  /\ IsInput(dictionary, MaxEntries, Terminals, {Plain})
  /\ sep \in Seps
  /\ schema = NotRun
  /\ flat = NotRun
  /\ flat2 = NotRun
  /\ flat_schema = NotRun
  /\ warnings = <<>>
  /\ field_name = ""
  /\ input_types = NotRun
  /\ input_type = ""
  /\ fields_ordered = NotRun
  /\ result = NotRun

\* flatten(dictionary, sep=sep)
Flatten ==
  /\ dictionary.kind # "unset"
  /\ flat.kind = "unset"
  /\ flat' = flatten(dictionary, "", sep)
  /\ UNCHANGED <<dictionary, schema, sep, flat2, flat_schema, warnings,
                 field_name, input_types, input_type, fields_ordered, result>>

\* flatten(flat, sep=sep): the flat row flattened again
Reflatten ==
  /\ flat.kind # "unset"
  /\ flat2.kind = "unset"
  /\ flat2' = flatten(flat, "", sep)
  /\ UNCHANGED <<dictionary, schema, sep, flat, flat_schema, warnings,
                 field_name, input_types, input_type, fields_ordered, result>>

NextFlatten == Flatten \/ Reflatten

SpecFlatten == InitFlatten /\ [][NextFlatten]_vars

----------------------------------------------------------------------------
(* Schema trees: a field declaration is a mapping with an optional "type",
   a token or a list of tokens, and optional "properties". *)

Tokens(names) == PyList([i \in 1..Len(names) |-> PyStr(names[i])])
Decl(type) == PyDict(<<Entry("type", type)>>)

LeafDecls ==
  { PyDict(<<>>),
    Decl(Tokens(<<"null", "integer">>)),
    Decl(PyStr("string")),
    Decl(Tokens(<<"null", "object">>)) }

ObjectTypes ==
  { Tokens(<<"null", "object">>), PyStr("object"), Tokens(<<"null", "OBJECT">>) }

\* The order the caller supplies: the keys as first seen, or one of them.
OrdersOf(d) == {KeySeq(d)} \cup {<<k>> : k \in KeySet(d)}
Names(names) == [kind |-> "names", val |-> names]

InitSchema ==
  /\ IsInput(schema, MaxEntries, LeafDecls, ObjectTypes)
  /\ sep \in Seps
  /\ dictionary = NotRun
  /\ flat = NotRun
  /\ flat2 = NotRun
  /\ flat_schema = NotRun
  /\ warnings = <<>>
  /\ field_name = ""
  /\ input_types = NotRun
  /\ input_type = ""
  /\ fields_ordered = NotRun
  /\ result = NotRun

\* flatten_schema(schema, sep=sep)
FlattenSchema ==
  /\ schema.kind # "unset"
  /\ flat_schema.kind = "unset"
  /\ LET r == flatten_schema(schema, "", sep)
     IN /\ flat_schema' = PyDict(r.items)
        /\ warnings' = warnings \o r.log
  /\ UNCHANGED <<dictionary, schema, sep, flat, flat2, field_name, input_types,
                 input_type, fields_ordered, result>>

\* The caller names the columns of the flattened schema it wants, in order.
SupplyOrder ==
  /\ flat_schema.kind = "dict"
  /\ fields_ordered.kind = "unset"
  /\ \E names \in OrdersOf(flat_schema) : fields_ordered' = Names(names)
  /\ UNCHANGED <<dictionary, schema, sep, flat, flat2, flat_schema, warnings,
                 field_name, input_types, input_type, result>>

\* flatten_schema_to_pyarrow_schema(flat_schema, fields_ordered)
BuildSchema ==
  /\ flat_schema.kind # "unset"
  /\ fields_ordered.kind # "unset"
  /\ result.kind = "unset"
  /\ result' \in flatten_schema_to_pyarrow_schema(flat_schema, fields_ordered.val)
  /\ UNCHANGED <<dictionary, schema, sep, flat, flat2, flat_schema, warnings,
                 field_name, input_types, input_type, fields_ordered>>

NextSchema == FlattenSchema \/ SupplyOrder \/ BuildSchema

SpecSchema == InitSchema /\ [][NextSchema]_vars

----------------------------------------------------------------------------
(* A schema and a record that conforms to it, each flattened with the same
   separator. *)

\* The type of a declaration holds the token "object", in any letter case.
IsObjectToken(t) == t \in {"object", "OBJECT", "Object"}
DeclaresObject(decl) ==
  /\ HasKey(decl, "type")
  /\ LET t == Get(decl, "type")
     IN IF t.kind = "str" THEN IsObjectToken(t.val)
        ELSE \E i \in 1..Len(t.val) : IsObjectToken(t.val[i].val)

RowValues == {PyInt(5), None}

\* The records that conform to a schema: every key is declared, and a value
\* is a nested mapping only where the key is declared with a type holding
\* "object" and with properties, the nested mapping conforming to them.
RECURSIVE ConformingTo(_)
ConformingTo(entries) ==
  IF entries = <<>> THEN {<<>>}
  ELSE LET key == Head(entries).key
           decl == Head(entries).value
           nested == IF DeclaresObject(decl) /\ HasKey(decl, "properties")
                     THEN {PyDict(r) : r \in ConformingTo(Get(decl, "properties").val)}
                     ELSE {}
           rests == ConformingTo(Tail(entries))
       IN rests \cup {<<Entry(key, v)>> \o r : v \in RowValues \cup nested, r \in rests}

InitAlign ==
  /\ IsInput(schema, MaxEntries - 1, LeafDecls, ObjectTypes)
  /\ schema.kind = "dict"
  /\ sep \in Seps
  /\ \E r \in ConformingTo(schema.val) : dictionary = PyDict(r)
  /\ flat = NotRun
  /\ flat2 = NotRun
  /\ flat_schema = NotRun
  /\ warnings = <<>>
  /\ field_name = ""
  /\ input_types = NotRun
  /\ input_type = ""
  /\ fields_ordered = NotRun
  /\ result = NotRun

NextAlign == FlattenSchema \/ Flatten

SpecAlign == InitAlign /\ [][NextAlign]_vars

----------------------------------------------------------------------------
(* The type resolver on its own *)

MaxTokens == 2

TokenNames ==
  { "null", "NULL", "Null", "integer", "INTEGER", "Integer", "string", "String",
    "boolean", "BOOLEAN", "array", "Array", "number", "NUMBER",
    "object", "timestamp", "TIMESTAMP", "" }

\* Declared types: absent, one token, or a list of at most MaxTokens tokens
\* (a list of n tokens is a list of n - 1 tokens and a last token).
IsTypeInput(types) ==
  \/ types = None
  \/ \E t \in TokenNames : types = PyStr(t)
  \/ types = Tokens(<<>>)
  \/ \E n \in 1..MaxTokens :
       \E ts \in [1..(n - 1) -> TokenNames], last \in TokenNames :
         types = Tokens(Append(ts, last))

InitResolve ==
  /\ field_name \in {"x", "id"}
  /\ IsTypeInput(input_types)
  /\ input_type = ""
  /\ dictionary = NotRun
  /\ schema = NotRun
  /\ sep = DEFAULT_SEP
  /\ flat = NotRun
  /\ flat2 = NotRun
  /\ flat_schema = NotRun
  /\ warnings = <<>>
  /\ fields_ordered = NotRun
  /\ result = NotRun

\* _field_type_to_pyarrow_field(field_name, input_types)
ResolveField ==
  /\ input_types.kind # "unset"
  /\ result.kind = "unset"
  /\ \E t \in selectable(input_types) :
       /\ input_type' = t
       /\ result' = field_type_to_pyarrow_field(field_name, input_types, t)
  /\ UNCHANGED <<dictionary, schema, sep, flat, flat2, flat_schema, warnings,
                 field_name, input_types, fields_ordered>>

NextResolve == ResolveField

SpecResolve == InitResolve /\ [][NextResolve]_vars

----------------------------------------------------------------------------
(* The column schema builder on its own *)

MaxFields == 3
MaxOrder == 2

FieldNames == {"id", "meta__k", "x"}

DeclaredTypes ==
  { None, PyStr("string"), Tokens(<<"null", "integer">>),
    Tokens(<<"timestamp">>), Tokens(<<"integer", "string">>),
    Tokens(<<"timestamp", "integer">>) }

\* flat_schema is a flat type mapping of at most MaxFields fields, or absent.
IsFlatSchema(d) ==
  \/ d = None
  \/ \E n \in 0..MaxFields :
       \E names \in { f \in [1..n -> FieldNames] :
                        \A i, j \in 1..n : i # j => f[i] # f[j] },
          types \in [1..n -> DeclaredTypes] :
         d = PyDict([i \in 1..n |-> Entry(names[i], types[i])])

Orders == UNION { [1..n -> FieldNames] : n \in 0..MaxOrder }

InitBuild ==
  /\ IsFlatSchema(flat_schema)
  /\ \E names \in Orders : fields_ordered = Names(names)
  /\ dictionary = NotRun
  /\ schema = NotRun
  /\ sep = DEFAULT_SEP
  /\ flat = NotRun
  /\ flat2 = NotRun
  /\ warnings = <<>>
  /\ field_name = ""
  /\ input_types = NotRun
  /\ input_type = ""
  /\ result = NotRun

NextBuild == BuildSchema

SpecBuild == InitBuild /\ [][NextBuild]_vars

----------------------------------------------------------------------------
(* What the claims about the record flattener speak of *)

\* The leaf paths of a record in depth-first order: a path ends at a value
\* that is not a nested mapping, and carries that value.
RECURSIVE LeavesOf(_, _)
LeavesOf(entries, prefix) ==
  IF entries = <<>> THEN <<>>
  ELSE LET e == Head(entries)
           here == IF e.value.kind = "dict"
                   THEN LeavesOf(e.value.val, Append(prefix, e.key))
                   ELSE << [path |-> Append(prefix, e.key), leaf |-> e.value] >>
       IN here \o LeavesOf(Tail(entries), prefix)

Leaves(d) == IF d.kind = "dict" THEN LeavesOf(d.val, <<>>) ELSE <<>>

\* The key segments of a path joined with the separator.
RECURSIVE JoinPath(_, _)
JoinPath(path, s) ==
  IF Len(path) = 1 THEN path[1]
  ELSE JoinPath(SubSeq(path, 1, Len(path) - 1), s) \o s \o path[Len(path)]

HasNestedMapping(d) ==
  d.kind = "dict" /\ \E i \in 1..Len(d.val) : d.val[i].value.kind = "dict"

\* The text Python prints for the lists of Terminals.
Rendering(v) ==
  CASE v = PyList(<<PyStr("10"), PyStr("11")>>) -> "['10', '11']"
    [] v = PyList(<<PyDict(<<Entry("a", PyInt(1))>>)>>) -> "[{'a': 1}]"

\* What the flat row holds for a leaf: a list as its text, anything else as it is.
Stored(leaf) == IF leaf.kind = "list" THEN PyStr(Rendering(leaf)) ELSE leaf

\* C1: flatten(R, sep=S) has exactly one entry for each leaf path of R, keyed
\* by the path's key segments joined with S, and no other entry; a record
\* without nested mapping keeps its key set.
C1_OneEntryPerLeafPath ==
  flat.kind = "dict" =>
    LET ls == Leaves(dictionary)
    IN /\ KeySet(flat) = {JoinPath(ls[i].path, sep) : i \in 1..Len(ls)}
       /\ Len(flat.val) = Len(ls)
       /\ (dictionary.kind = "dict" /\ ~HasNestedMapping(dictionary))
            => KeySet(flat) = KeySet(dictionary)

\* C7: at every depth a list-valued leaf is stored as the text of the list
\* and any other leaf is stored unchanged; a list is a leaf, whatever it
\* holds. Every stored value is the stored form of a leaf of the record, and
\* when no entry was overwritten the stored values are the stored forms of
\* the leaves in traversal order.
C7_LeafValues ==
  flat.kind = "dict" =>
    LET ls == Leaves(dictionary)
    IN /\ \A i \in 1..Len(flat.val) :
            \E j \in 1..Len(ls) : flat.val[i].value = Stored(ls[j].leaf)
       /\ Len(flat.val) = Len(ls) =>
            \A i \in 1..Len(ls) : flat.val[i].value = Stored(ls[i].leaf)

\* C7 witness: a list two levels down was stored as its text, next to an
\* integer stored as it was.
C7_Witness ==
  /\ sep = DEFAULT_SEP
  /\ dictionary = PyDict(<< Entry("a", PyDict(<<
                       Entry("b", PyList(<<PyStr("10"), PyStr("11")>>)),
                       Entry("a", PyInt(5)) >>)) >>)
  /\ flat = PyDict(<< Entry("a__b", PyStr("['10', '11']")),
                      Entry("a__a", PyInt(5)) >>)

\* C10: a record without nested mapping flattens to the same keys and the
\* same values, lists as their text; and flattening a flat row again
\* changes nothing.
C10_Idempotent ==
  /\ (flat.kind = "dict" /\ dictionary.kind = "dict" /\ ~HasNestedMapping(dictionary))
       => /\ KeySeq(flat) = KeySeq(dictionary)
          /\ \A i \in 1..Len(flat.val) :
               flat.val[i].value = Stored(dictionary.val[i].value)
  /\ flat2.kind = "dict" => flat2 = flat

\* C10 witness: a nested record holding a list was flattened twice.
C10_Witness ==
  /\ flat2.kind = "dict"
  /\ HasNestedMapping(dictionary)
  /\ \E i \in 1..Len(flat.val) : flat.val[i].value = PyStr("['10', '11']")
  /\ Len(flat.val) = MaxEntries - 1

----------------------------------------------------------------------------
(* What the claims about the schema flattener speak of *)

\* The fields of a schema tree in depth-first order: the declared keys, and
\* under a field that declares an object the fields of its properties.
RECURSIVE SchemaFieldsOf(_, _)
SchemaFieldsOf(entries, prefix) ==
  IF entries = <<>> THEN <<>>
  ELSE LET e == Head(entries)
           path == Append(prefix, e.key)
           below == IF DeclaresObject(e.value) /\ HasKey(e.value, "properties")
                    THEN SchemaFieldsOf(Get(e.value, "properties").val, path)
                    ELSE <<>>
       IN << [path |-> path, declaration |-> e.value] >> \o below
            \o SchemaFieldsOf(Tail(entries), prefix)

SchemaFields(d) == IF d.kind = "dict" THEN SchemaFieldsOf(d.val, <<>>) ELSE <<>>

\* A raw type as flatten_schema records it holds the token "object".
TypeHoldsObject(t) ==
  CASE t.kind = "str" -> IsObjectToken(t.val)
    [] t.kind = "list" -> \E i \in 1..Len(t.val) : IsObjectToken(t.val[i].val)
    [] OTHER -> FALSE

\* C2: flatten_schema(T) has no key for a node whose type holds the token
\* "object" in any letter case: no column carries such a type, and the
\* columns are exactly the fields that declare no object, each under its
\* path joined with the separator.
C2_NoObjectColumn ==
  flat_schema.kind = "dict" /\ schema.kind # "unset" =>
    LET fs == SchemaFields(schema)
    IN /\ \A i \in 1..Len(flat_schema.val) : ~TypeHoldsObject(flat_schema.val[i].value)
       /\ KeySet(flat_schema) =
            { JoinPath(fs[i].path, sep) :
                i \in {j \in 1..Len(fs) : ~DeclaresObject(fs[j].declaration)} }

\* The fields declared without a "type", in depth-first order.
Typeless(d) ==
  LET fs == SchemaFields(d)
  IN SelectSeq(fs, LAMBDA f : ~HasKey(f.declaration, "type"))

\* C8: a field declared without "type" does not abort flatten_schema: one
\* warning is logged for it, its flattened key is in the result with the
\* absent type None, and the builder makes that column (string, not nullable).
C8_MissingTypeIsWarning ==
  /\ flat_schema.kind = "dict" /\ schema.kind # "unset" =>
       LET tl == Typeless(schema)
       IN /\ warnings = [i \in 1..Len(tl) |->
                           [field |-> tl[i].path[Len(tl[i].path)],
                            declaration |-> tl[i].declaration]]
          /\ \A i \in 1..Len(tl) :
               /\ HasKey(flat_schema, JoinPath(tl[i].path, sep))
               /\ Get(flat_schema, JoinPath(tl[i].path, sep)) = None
  /\ result.kind = "schema" /\ schema.kind # "unset" =>
       LET tl == Typeless(schema)
       IN \A j \in 1..Len(fields_ordered.val) :
            (\E i \in 1..Len(tl) : fields_ordered.val[j] = JoinPath(tl[i].path, sep))
              => result.fields[j] = Field(fields_ordered.val[j], "string", FALSE)

\* C9: with one separator, every key of the flattened record is a key of the
\* flattened schema the record conforms to.
C9_RowKeysAreColumns ==
  flat.kind = "dict" /\ flat_schema.kind = "dict" =>
    KeySet(flat) \subseteq KeySet(flat_schema)

----------------------------------------------------------------------------
(* What the claims about the type resolver speak of *)

\* A declared token without its letter case.
TokenClass(t) ==
  CASE t \in {"null", "NULL", "Null"} -> "null"
    [] t \in {"integer", "INTEGER", "Integer"} -> "integer"
    [] t \in {"string", "String"} -> "string"
    [] t \in {"boolean", "BOOLEAN"} -> "boolean"
    [] t \in {"array", "Array"} -> "array"
    [] t \in {"number", "NUMBER"} -> "number"
    [] OTHER -> "other"

\* The tokens of a declared-types value, as a set.
DeclaredTokens(types) ==
  CASE types.kind = "str" -> {types.val}
    [] types.kind = "list" -> {types.val[i].val : i \in 1..Len(types.val)}
    [] OTHER -> {}

TypeClasses(types) == {TokenClass(t) : t \in DeclaredTokens(types)} \ {"null"}

StorageOf(classes) ==
  CASE classes = {} -> "string"
    [] classes = {"boolean"} -> "bool"
    [] classes = {"string"} -> "string"
    [] classes = {"array"} -> "string"
    [] classes = {"integer"} -> "int64"
    [] classes = {"number"} -> "float64"

\* C3: declared types that are absent, or hold at most one of boolean, string,
\* array, integer, number besides null, in any letter case, order and
\* repetition, resolve to the storage type of the table, nullable exactly
\* when null is among them.
C3_ResolveTotal ==
  ( /\ result.kind # "unset"
    /\ input_types.kind # "unset"
    /\ "other" \notin TypeClasses(input_types)
    /\ Cardinality(TypeClasses(input_types)) <= 1 )
  => result = Field(field_name, StorageOf(TypeClasses(input_types)),
                    \E t \in DeclaredTokens(input_types) : TokenClass(t) = "null")

\* C3 witness: ["Integer", "NULL"] was resolved to a nullable int64.
C3_Witness ==
  /\ input_types = Tokens(<<"Integer", "NULL">>)
  /\ result = Field(field_name, "int64", TRUE)

\* The text of a declared-types value.
DeclaredText(types) == IF types.kind = "str" THEN types.val ELSE PyRepr(types)

\* C4: when the token selected after removing null is no key of the table,
\* the call raises the unsupported-type error, whose message carries the
\* field name and the declared types; it returns no column.
C4_UnsupportedRaises ==
  ( /\ result.kind # "unset"
    /\ input_types.kind # "unset"
    /\ input_type \notin {"BOOLEAN", "STRING", "ARRAY", "", "INTEGER", "NUMBER"} )
  => /\ result.kind = "NotImplementedError"
     /\ Contains(result.message, "field " \o field_name)
     /\ Contains(result.message, DeclaredText(input_types))

\* C4 witness: the single token "timestamp" was rejected.
C4_Witness ==
  /\ input_types = PyStr("timestamp")
  /\ input_type = "TIMESTAMP"
  /\ result.kind = "NotImplementedError"

----------------------------------------------------------------------------
(* What the claims about the column schema builder speak of *)

IsAbsent(name) == flat_schema.kind # "dict" \/ ~HasKey(flat_schema, name)
\* The resolver rejects the declared type of a name, whatever it selects.
IsRejected(name) ==
  /\ ~IsAbsent(name)
  /\ \A r \in ResolveOutcomes(name, Get(flat_schema, name)) : r.kind # "field"
\* The resolver accepts the declared type of a name, whatever it selects.
IsResolvable(name) ==
  /\ ~IsAbsent(name)
  /\ \A r \in ResolveOutcomes(name, Get(flat_schema, name)) : r.kind = "field"

\* C5: when every name of the order is a key of the mapping with a
\* resolvable type, the schema has one column per name of the order, in that
\* order, each with the type and the nullable flag the resolver gives it.
C5_OrderIsColumnOrder ==
  ( /\ result.kind # "unset"
    /\ \A i \in 1..Len(fields_ordered.val) : IsResolvable(fields_ordered.val[i]) )
  => /\ result.kind = "schema"
     /\ Len(result.fields) = Len(fields_ordered.val)
     /\ \A i \in 1..Len(fields_ordered.val) :
          /\ result.fields[i].name = fields_ordered.val[i]
          /\ result.fields[i] \in
               ResolveOutcomes(fields_ordered.val[i],
                               Get(flat_schema, fields_ordered.val[i]))

\* C5 witness: two columns were built in the order asked for, the reverse of
\* the order of the mapping, and the third key of the mapping gave no column.
C5_Witness ==
  /\ flat_schema = PyDict(<< Entry("id", Tokens(<<"null", "integer">>)),
                             Entry("meta__k", PyStr("string")),
                             Entry("x", Tokens(<<"timestamp">>)) >>)
  /\ fields_ordered = Names(<<"meta__k", "id">>)
  /\ result = Schema(<< Field("meta__k", "string", FALSE),
                        Field("id", "int64", TRUE) >>)

\* C6: when a name of the order is absent from the mapping or has a type the
\* resolver rejects, the builder raises and returns no schema: the error is
\* the key-not-found fault of an absent name or the resolver's own error for
\* a name, and that name is no later than the first such name.
C6_NoPartialSchema ==
  ( /\ result.kind # "unset"
    /\ fields_ordered.kind # "unset"
    /\ \E i \in 1..Len(fields_ordered.val) :
         IsAbsent(fields_ordered.val[i]) \/ IsRejected(fields_ordered.val[i]) )
  => LET names == fields_ordered.val
         first == CHOOSE i \in 1..Len(names) :
                    /\ IsAbsent(names[i]) \/ IsRejected(names[i])
                    /\ \A j \in 1..(i - 1) : ~(IsAbsent(names[j]) \/ IsRejected(names[j]))
     IN /\ result.kind \in {"KeyError", "NotImplementedError"}
        /\ \E j \in 1..first :
             \/ IsAbsent(names[j]) /\ result = KeyError(names[j])
             \/ /\ ~IsAbsent(names[j])
                /\ result.kind = "NotImplementedError"
                /\ result \in ResolveOutcomes(names[j], Get(flat_schema, names[j]))
        /\ (\A j \in 1..(first - 1) : IsResolvable(names[j]))
             => IF IsAbsent(names[first]) THEN result = KeyError(names[first])
                ELSE result.kind = "NotImplementedError"

\* C6 witness: the first name was resolved, the second is absent from the
\* mapping, and the call raised the key-not-found fault.
C6_Witness ==
  /\ flat_schema = PyDict(<<Entry("id", Tokens(<<"null", "integer">>))>>)
  /\ fields_ordered = Names(<<"id", "x">>)
  /\ result = KeyError("x")

====
